---- MODULE Spec2Model ----
(***************************************************************************)
(* A model of myphysicslab's SimRunner (lab/app/SimRunner.js), its Clock   *)
(* (lab/util/Clock.js) and SimList (lab/model/SimList.js).                 *)
(*                                                                         *)
(* Time.  System time, clock time, real time and simulation time are       *)
(* integers counted in ticks; Second is the number of ticks in one second. *)
(* Every duration the model feeds in (system time passing, time steps,     *)
(* times given to setTime) is an even number of ticks, so that the         *)
(* division by timeRate_ (1 or 2) in Clock.setTimePrivate and              *)
(* Clock.setRealTime is exact, and every time step is a multiple of 10     *)
(* ticks, so that timeStep_/10 in SimRunner.callback is exact.  Floating   *)
(* point rounding is not modelled.                                         *)
(***************************************************************************)
EXTENDS Integers, Sequences, FiniteSets, TLC

VARIABLES
  sysTime,         \* UtilityCore.getSystemTime(), in ticks
  clock_,          \* SimRunner.clock_ : the Clock's private fields
  advanceList_,    \* SimRunner.advanceList_ : the time of each AdvanceStrategy
  timeStep_,       \* SimRunner.timeStep_
  displayPeriod_,  \* SimRunner.displayPeriod_
  timer_,          \* SimRunner.timer_ : how the Timer was last scheduled
  canvasList_,     \* SimRunner.canvasList_
  errorObservers_, \* SimRunner.errorObservers_
  ops,             \* the number of operations performed so far
  last,            \* what the most recent operation did (history)
  elements_,       \* SimList.elements_
  similar_,        \* the pairs <<obj, simObj>> for which obj.similar(simObj, tol) holds
  mirror,          \* the set kept by an Observer of the SimList
  bodies,          \* position and angle of the RigidBody of edge1 and of edge2
  collisions,      \* the records given to UtilityCollision.addCollision
  DISABLE_EDGE_EDGE, \* UtilityCollision.DISABLE_EDGE_EDGE
  edges,           \* the fields of two AbstractEdges, A and B
  handler,         \* the fields of a RigidBodyEventHandler
  sim_             \* RigidBodyEventHandler.sim_ : its bodies and force laws

runnerVars == <<advanceList_, timeStep_, displayPeriod_, timer_, canvasList_,
                errorObservers_>>
listVars == <<elements_, similar_, mirror>>
edgeVars == <<bodies, collisions, DISABLE_EDGE_EDGE, edges>>
dragVars == <<handler, sim_>>
vars == <<sysTime, clock_, advanceList_, timeStep_, displayPeriod_, timer_,
          canvasList_, errorObservers_, ops, last, elements_, similar_, mirror,
          bodies, collisions, DISABLE_EDGE_EDGE, edges, handler, sim_>>

\* the two RigidBodys where the scenes start, nothing detected yet
StartBodies ==
  [ body1 |-> [position |-> <<0, 2>>, angle |-> 0],
    body2 |-> [position |-> <<0, 0>>, angle |-> 0] ]

\* Number.NaN and a number, as values of centroidRadius_
NaN == [nan |-> TRUE, value |-> 0]
Number(x) == [nan |-> FALSE, value |-> x]

\* new AbstractEdge(body, vertex1, vertex2); body is the position and angle of
\* the Polygon, and lengths are in eighths so that the halves and the 1.25 that
\* the code takes are whole numbers.  overridden tells whether
\* setCentroidRadius was called (history).
AbstractEdge_new(body, vertex1, vertex2) ==
  [ v1_ |-> vertex1,
    v2_ |-> vertex2,
    centroid_body_ |-> << (vertex1[1] + vertex2[1]) \div 2,
                          (vertex1[2] + vertex2[2]) \div 2 >>,
    centroidRadius_ |-> NaN,
    body_ |-> body,
    overridden |-> FALSE ]

\* the two edges where the scenes start
StartEdges ==
  [ A |-> AbstractEdge_new([position |-> <<0, 0>>, angle |-> 0], <<0, 0>>, <<8, 0>>),
    B |-> AbstractEdge_new([position |-> <<0, 0>>, angle |-> 0], <<8, -8>>, <<8, 8>>) ]

\* the `null` of dragSpring_
NoSpring == [name |-> "null", id |-> 0, finite |-> FALSE, expireTime |-> 0]

\* new RigidBodyEventHandler(sim, clock); angles are in quarter turns
NewHandler ==
  [ dragSpring_     |-> NoSpring,
    mousePoint_     |-> <<0, 0>>,
    dragObj_        |-> -1,
    optionKey_      |-> FALSE,
    startDragAngle_ |-> 0,
    startBodyAngle_ |-> 0 ]

\* a RigidBodySim with two bodies and one ForceLaw
NewSim ==
  [ bodies    |-> << [position |-> <<0, 0>>, angle |-> 0],
                     [position |-> <<2, 0>>, angle |-> 0] >>,
    forceLaws |-> { [name |-> "gravity", id |-> 0, finite |-> FALSE, expireTime |-> 0] } ]

\* the handler variables of a model that does not use them
NoDrag ==
  /\ handler = NewHandler
  /\ sim_ = NewSim

\* the edge variables of a model that does not use them
NoEdges ==
  /\ bodies = StartBodies
  /\ collisions = <<>>
  /\ DISABLE_EDGE_EDGE = FALSE
  /\ edges = StartEdges

----------------------------------------------------------------------------
(* Program constants *)

\* the literal 1 (second) of SimRunner.callback's resynchronisation test, in ticks
Second == 800
\* the factor of `var limit = 20*this.timeStep_`
RetardFactor == 20
\* the divisor of `startTime - this.timeStep_/10`
SlackDivisor == 10
\* 1e-15 seconds, in whole ticks
StuckEpsilon == 0
\* Clock constructor: this.timeRate_ = 1.0
InitialTimeRate == 1
\* SimRunner constructor: this.displayPeriod_ = 0.025 (seconds), in ticks
InitialDisplayPeriod == 20

(* Bounds of the model *)

\* at most this many operations are performed
MaxOps == 5
\* at most this many AdvanceStrategy objects
MaxStrategies == 2

\* the values the inputs are drawn from
TimeSteps == {20, 40}
TimeRates == {1, 2}
SetTimes == {0, 442}            \* times given to Clock.setTime by a client
MaxFaultAt == 2

----------------------------------------------------------------------------
(* Clock.js.  A Clock is the record of its private fields; each method is   *)
(* an operator from the Clock, the system time `sys` at the call and the    *)
(* arguments to the Clock after the call.  `obs` says who observes the      *)
(* Clock: nobody, or the SimRunner whose first strategy is at obs.simTime.  *)

NewClock(sys) ==
  [ clockStart_sys_secs_ |-> sys,
    realStart_sys_secs_  |-> sys,
    timeRate_            |-> InitialTimeRate,
    saveTime_secs_       |-> 0,
    saveRealTime_secs_   |-> 0,
    isRunning_           |-> FALSE,
    stepMode_            |-> FALSE ]

\* a Clock with no Observer
NoObserver == [runner |-> FALSE, simTime |-> 0]

\* the Clock of a SimRunner with this.advanceList_[0].getTime() = simTime
RunnerObserver(simTime) == [runner |-> TRUE, simTime |-> simTime]

Clock_getTime(c, sys) ==
  IF c.isRunning_
    THEN (sys - c.clockStart_sys_secs_) * c.timeRate_
    ELSE c.saveTime_secs_

Clock_getRealTime(c, sys) ==
  IF c.isRunning_
    THEN (sys - c.realStart_sys_secs_) * c.timeRate_
    ELSE c.saveRealTime_secs_

Clock_getTimeRate(c) == c.timeRate_

Clock_isRunning(c) == c.isRunning_

Clock_isStepping(c) == c.stepMode_

Clock_clockToSystem(c, clockTime) ==
  clockTime \div c.timeRate_ + c.clockStart_sys_secs_

Clock_clearStepMode(c) == [c EXCEPT !.stepMode_ = FALSE]

Clock_setTimePrivate(c, sys, time_secs) ==
  IF c.isRunning_
    THEN [c EXCEPT !.clockStart_sys_secs_ = sys - time_secs \div c.timeRate_]
    ELSE [c EXCEPT !.saveTime_secs_ = time_secs]

Clock_setRealTime(c, sys, time_secs) ==
  IF c.isRunning_
    THEN [c EXCEPT !.realStart_sys_secs_ = sys - time_secs \div c.timeRate_]
    ELSE [c EXCEPT !.saveRealTime_secs_ = time_secs]

\* SimRunner.observe (SimRunner.js), for an event of this.clock_; simTime is
\* this.advanceList_[0].getTime().  Its this.clock_.setTime(t) is setTimePrivate(t)
\* and a CLOCK_SET_TIME event, on which observe calls memorize(), which changes
\* nothing of the Clock.
SimRunner_observe(c, sys, name, simTime) ==
  IF name \in {"CLOCK_RESUME", "CLOCK_PAUSE"}
    THEN LET c1 == Clock_setTimePrivate(c, sys, simTime)
         IN  Clock_setRealTime(c1, sys, simTime)
    ELSE c

\* this.broadcast(new GenericEvent(this, name)): the Clock after its Observers
\* have run
Clock_broadcast(c, sys, name, obs) ==
  IF obs.runner THEN SimRunner_observe(c, sys, name, obs.simTime) ELSE c

\* setTime also setting the real time
Clock_setTime_Both(c, sys, time_secs, obs) ==
  Clock_broadcast(Clock_setRealTime(Clock_setTimePrivate(c, sys, time_secs), sys, time_secs),
                  sys, "CLOCK_SET_TIME", obs)

Clock_setTime(c, sys, time_secs, obs) ==
  Clock_broadcast(Clock_setTimePrivate(c, sys, time_secs), sys, "CLOCK_SET_TIME", obs)

Clock_pause(c, sys, obs) ==
  IF c.isRunning_
    THEN Clock_broadcast([c EXCEPT !.saveTime_secs_ = Clock_getTime(c, sys),
                                   !.saveRealTime_secs_ = Clock_getRealTime(c, sys),
                                   !.isRunning_ = FALSE],
                         sys, "CLOCK_PAUSE", obs)
    ELSE c

Clock_resume(c, sys, obs) ==
  IF ~c.isRunning_
    THEN LET c1 == [c EXCEPT !.isRunning_ = TRUE]
             c2 == Clock_setTimePrivate(c1, sys, c1.saveTime_secs_)
             c3 == Clock_setRealTime(c2, sys, c2.saveRealTime_secs_)
         IN  Clock_broadcast(c3, sys, "CLOCK_RESUME", obs)
    ELSE c

\* step without `this.saveRealTime_secs_ += timeStep`
Clock_step_ClockOnly(c, sys, timeStep, obs) ==
  LET c1 == Clock_pause(c, sys, obs)
      c2 == [c1 EXCEPT !.stepMode_ = TRUE]
      c3 == [c2 EXCEPT !.saveTime_secs_ = c2.saveTime_secs_ + timeStep]
  IN  Clock_broadcast(c3, sys, "CLOCK_STEP", obs)

Clock_step(c, sys, timeStep, obs) ==
  LET c1 == Clock_pause(c, sys, obs)
      c2 == [c1 EXCEPT !.stepMode_ = TRUE]
      c3 == [c2 EXCEPT !.saveTime_secs_ = c2.saveTime_secs_ + timeStep,
                       !.saveRealTime_secs_ = c2.saveRealTime_secs_ + timeStep]
  IN  Clock_broadcast(c3, sys, "CLOCK_STEP", obs)

\* setTimeRate without setTimePrivate(t) and setRealTime(sysT)
Clock_setTimeRate_RateOnly(c, sys, rate, obs) ==
  IF c.timeRate_ # rate
    THEN Clock_broadcast([c EXCEPT !.timeRate_ = rate], sys, "TIME_RATE", obs)
    ELSE c

Clock_setTimeRate(c, sys, rate, obs) ==
  IF c.timeRate_ # rate
    THEN LET t    == Clock_getTime(c, sys)
             sysT == Clock_getRealTime(c, sys)
             c1   == [c EXCEPT !.timeRate_ = rate]
             c2   == Clock_setTimePrivate(c1, sys, t)
             c3   == Clock_setRealTime(c2, sys, sysT)
         IN  Clock_broadcast(c3, sys, "TIME_RATE", obs)
    ELSE c

\* What Clock.pause broadcasts when called on c
Clock_pause_broadcasts(c) == IF c.isRunning_ THEN <<"CLOCK_PAUSE">> ELSE <<>>

----------------------------------------------------------------------------
(* SimRunner.js *)

\* The Timer (lab/util/Timer.js): whether a callback is scheduled, and the call
\* that scheduled it.
Timer_new == [firing |-> FALSE, method |-> "none", arg |-> 0]
Timer_callBackStarted(t) == [t EXCEPT !.firing = FALSE]
Timer_fireAfter(t, delay) == [firing |-> TRUE, method |-> "fireAfter", arg |-> delay]
Timer_fireAfterNoArg(t) == [firing |-> TRUE, method |-> "fireAfterNoArg", arg |-> 0]
Timer_finishAt(t, finishTime) == [firing |-> TRUE, method |-> "finishAt", arg |-> finishTime]

\* What the n-th call of AdvanceStrategy.advance made by one callback does: it
\* moves the simulation time forward by timeStep ("ok"), leaves it where it is
\* ("stuck"), moves it by half of timeStep ("short"), or throws ("throw").
AdvanceOutcome(fault, n) ==
  IF fault.kind # "none" /\ fault.at = n THEN fault.kind ELSE "ok"

AdvanceDelta(outcome, timeStep) ==
  CASE outcome = "ok"    -> timeStep
    [] outcome = "stuck" -> 0
    [] outcome = "short" -> timeStep \div 2

\* an increment taken from the clock in place of this.timeStep_: what is left
\* to the target time
AdvanceArgument_ClockDerived(timeStep, simTime, targetTime) == targetTime - simTime

\* the first argument of `strategy.advance(this.timeStep_, this)`
AdvanceArgument(timeStep, simTime, targetTime) == timeStep

\* advanceSims without the test that time advanced: a call that makes no
\* progress is followed by the next call
RECURSIVE advanceSims_NoStuckTest(_, _, _, _, _)
advanceSims_NoStuckTest(simTime, targetTime, timeStep, n, fault) ==
  IF ~(simTime < targetTime)
    THEN [time |-> simTime, n |-> n, err |-> "none"]
    ELSE LET outcome == AdvanceOutcome(fault, n + 1)
         IN  IF outcome = "throw"
               THEN [time |-> simTime, n |-> n + 1, err |-> "advance"]
               ELSE advanceSims_NoStuckTest(
                      simTime + AdvanceDelta(outcome,
                                  AdvanceArgument(timeStep, simTime, targetTime)),
                                            targetTime, timeStep, n + 1, fault)

\* SimRunner.advanceSims(strategy, targetTime); simTime is strategy.getTime() and
\* n the number of advance calls the callback has made so far.  The result is
\* the strategy's time, the number of calls made and the error thrown, if any.
RECURSIVE advanceSims(_, _, _, _, _)
advanceSims(simTime, targetTime, timeStep, n, fault) ==
  IF ~(simTime < targetTime)
    THEN [time |-> simTime, n |-> n, err |-> "none"]
    ELSE LET outcome == AdvanceOutcome(fault, n + 1)
         IN  IF outcome = "throw"
               THEN [time |-> simTime, n |-> n + 1, err |-> "advance"]
               ELSE LET lastSimTime == simTime
                        newTime     == simTime + AdvanceDelta(outcome,
                                         AdvanceArgument(timeStep, simTime, targetTime))
                    IN  IF newTime - lastSimTime <= StuckEpsilon
                          THEN [time |-> newTime, n |-> n + 1, err |-> "stuck"]
                          ELSE advanceSims(newTime, targetTime, timeStep, n + 1, fault)

\* The loop of SimRunner.callback over advanceList_, from index i on; calls holds
\* the number of advance calls made on each strategy already visited.
RECURSIVE AdvanceLoop(_, _, _, _, _, _, _)
AdvanceLoop(list, i, targetTime, timeStep, n, fault, calls) ==
  IF i > Len(list)
    THEN [list |-> list, n |-> n, calls |-> calls, err |-> "none"]
    ELSE LET r     == advanceSims(list[i], targetTime, timeStep, n, fault)
             list1 == [list EXCEPT ![i] = r.time]
             calls1 == Append(calls, r.n - n)
         IN  IF r.err # "none"
               THEN [list |-> list1, n |-> r.n, calls |-> calls1, err |-> r.err]
               ELSE AdvanceLoop(list1, i + 1, targetTime, timeStep, r.n, fault, calls1)

\* SimRunner.paintAll, where the paintAt-th canvas throws (0: none does): the
\* canvases painted and the error thrown.
paintAll(canvasList, paintAt) ==
  IF paintAt >= 1 /\ paintAt <= Len(canvasList)
    THEN [painted |-> SubSeq(canvasList, 1, paintAt - 1), err |-> "paint"]
    ELSE [painted |-> canvasList, err |-> "none"]

\* handleException without this.pause()
handleException_NoPause(c, sys, simTime, error, errorObservers) ==
  [ clock    |-> c,
    notified |-> [k \in 1..Len(errorObservers) |-> <<errorObservers[k], error>>] ]

\* SimRunner.handleException: the Clock after this.pause(), and the
\* notifyError calls made.
handleException(c, sys, simTime, error, errorObservers) ==
  [ clock    |-> Clock_pause(c, sys, RunnerObserver(simTime)),
    notified |-> [k \in 1..Len(errorObservers) |-> <<errorObservers[k], error>>] ]

\* the paused branch without the paintAll that follows it
callbackIdle_NoPaint(timer, paintAt) ==
  [ clock |-> clock_, list |-> advanceList_,
    timer |-> Timer_fireAfter(timer, displayPeriod_),
    err |-> "none", painted |-> <<>>,
    resync |-> FALSE, T |-> 0, n |-> 0, calls |-> <<>>, retard |-> FALSE,
    clockTime1 |-> 0, realBeforeRetard |-> 0 ]

\* The body of the try block of SimRunner.callback when the Clock is neither
\* running nor stepping.
callbackIdle(timer, paintAt) ==
  LET p == paintAll(canvasList_, paintAt)
  IN  [ clock |-> clock_, list |-> advanceList_,
        timer |-> Timer_fireAfter(timer, displayPeriod_),
        err |-> p.err, painted |-> p.painted,
        resync |-> FALSE, T |-> 0, n |-> 0, calls |-> <<>>, retard |-> FALSE,
        clockTime1 |-> 0, realBeforeRetard |-> 0 ]

\* the target without the allowance of a tenth of a time step
TargetTime_NoSlack(startTime, timeStep) == startTime

\* `var targetTime = startTime - this.timeStep_/10`
TargetTime(startTime, timeStep) == startTime - timeStep \div SlackDivisor

\* the test for retarding the Clock made against 40 time steps instead of 20
Retard_AtLimit(clockTime, simTime, timeStep) ==
  clockTime - simTime > 2 * RetardFactor * timeStep

\* `var limit = 20*this.timeStep_; var retard = clockTime - simTime > limit`
Retard(clockTime, simTime, timeStep) ==
  LET limit == RetardFactor * timeStep
  IN  clockTime - simTime > limit

\* the Timer call of the retard branch left out
RetardTimer_Forgotten(timer) == timer

\* `this.timer_.fireAfter(0)` of the retard branch
RetardTimer(timer) == Timer_fireAfter(timer, 0)

\* The body of the try block of SimRunner.callback when the Clock is running or
\* stepping.  The advance calls take the system time from sysTime to now.
callbackActive(timer, fault, now, paintAt) ==
  LET clockTime0 == Clock_getTime(clock_, sysTime)
      simTime0   == advanceList_[1]
      resync     == clockTime0 > simTime0 + Second \/ clockTime0 < simTime0 - Second
      t          == simTime0 + timeStep_
      c1         == IF resync
                      THEN Clock_setRealTime(
                             Clock_setTime(clock_, sysTime, t, RunnerObserver(simTime0)),
                             sysTime, t)
                      ELSE clock_
      startTime  == IF resync THEN t ELSE clockTime0
      targetTime == TargetTime(startTime, timeStep_)
      adv        == AdvanceLoop(advanceList_, 1, targetTime, timeStep_, 0, fault, <<>>)
      stepping   == Clock_isStepping(c1)
      clockTime1 == Clock_getTime(c1, now)
      simTime1   == adv.list[1]
      retard     == ~stepping /\ Retard(clockTime1, simTime1, timeStep_)
      c2         == IF stepping THEN Clock_clearStepMode(c1)
                    ELSE IF retard
                      THEN Clock_setTime(c1, now, simTime1, RunnerObserver(simTime1))
                      ELSE c1
      timer2     == IF stepping THEN Timer_fireAfter(timer, displayPeriod_)
                    ELSE IF retard THEN RetardTimer(timer)
                    ELSE Timer_finishAt(timer,
                           Clock_clockToSystem(c1,
                             simTime1 + displayPeriod_ * Clock_getTimeRate(c1)))
      p          == paintAll(canvasList_, paintAt)
      base       == [ resync |-> resync, T |-> startTime, n |-> adv.n,
                      calls |-> adv.calls, list |-> adv.list ]
  IN  IF adv.err # "none"
        THEN base @@ [ clock |-> c1, timer |-> timer, err |-> adv.err,
                       painted |-> <<>>, retard |-> FALSE, clockTime1 |-> 0,
                       realBeforeRetard |-> 0 ]
        ELSE base @@ [ clock |-> c2, timer |-> timer2, err |-> p.err,
                       painted |-> p.painted, retard |-> retard,
                       clockTime1 |-> IF stepping THEN 0 ELSE clockTime1,
                       realBeforeRetard |-> IF retard THEN Clock_getRealTime(c1, now) ELSE 0 ]

\* SimRunner.callback, run by the Timer.  fault: what goes wrong in an advance
\* call; el: the system time the advance calls take; paintAt: the canvas whose
\* paint throws.
callback(fault, el, paintAt) ==
  /\ timer_.firing
  /\ ops < MaxOps
  /\ ops' = ops + 1
  /\ LET now      == sysTime + el
         timer1   == Timer_callBackStarted(timer_)
         idle     == ~Clock_isRunning(clock_) /\ ~Clock_isStepping(clock_)
         body     == IF idle THEN callbackIdle(timer1, paintAt)
                     ELSE callbackActive(timer1, fault, now, paintAt)
         h        == handleException(body.clock, now, body.list[1], body.err, errorObservers_)
         caught   == body.err # "none"
     IN  /\ sysTime' = now
         /\ advanceList_' = body.list
         /\ clock_' = IF caught THEN h.clock ELSE body.clock
         /\ timer_' = IF caught THEN Timer_fireAfterNoArg(body.timer) ELSE body.timer
         /\ last' = [ op |-> "callback",
                      running |-> Clock_isRunning(clock_),
                      stepping |-> Clock_isStepping(clock_),
                      timeStep |-> timeStep_,
                      fault |-> fault,
                      resync |-> body.resync, T |-> body.T, n |-> body.n,
                      calls |-> body.calls, err |-> body.err,
                      painted |-> body.painted, retard |-> body.retard,
                      clockTime1 |-> body.clockTime1,
                      realBeforeRetard |-> body.realBeforeRetard,
                      notified |-> IF caught THEN h.notified ELSE <<>> ]
  /\ UNCHANGED <<timeStep_, displayPeriod_, canvasList_, errorObservers_>>

----------------------------------------------------------------------------
(* The other operations of SimRunner, and of its Clock as a client reaches  *)
(* it through SimRunner.getClock().                                         *)

\* the Observer that this SimRunner is of its Clock
Observer == RunnerObserver(advanceList_[1])

Done(op) ==
  /\ ops < MaxOps
  /\ ops' = ops + 1
  /\ last' = [op |-> op]
  /\ UNCHANGED sysTime

pause ==
  /\ clock_' = Clock_pause(clock_, sysTime, Observer)
  /\ Done("pause")
  /\ UNCHANGED <<advanceList_, timeStep_, displayPeriod_, timer_, canvasList_, errorObservers_>>

resume ==
  /\ clock_' = Clock_resume(clock_, sysTime, Observer)
  /\ Done("resume")
  /\ UNCHANGED <<advanceList_, timeStep_, displayPeriod_, timer_, canvasList_, errorObservers_>>

step ==
  /\ LET dt == advanceList_[1] + timeStep_ - Clock_getTime(clock_, sysTime)
     IN  clock_' = Clock_step(clock_, sysTime, dt, Observer)
  /\ last' = [ op |-> "step", running |-> Clock_isRunning(clock_),
               ahead |-> Clock_getTime(clock_, sysTime) - advanceList_[1] ]
  /\ ops < MaxOps
  /\ ops' = ops + 1
  /\ UNCHANGED sysTime
  /\ UNCHANGED <<advanceList_, timeStep_, displayPeriod_, timer_, canvasList_, errorObservers_>>

\* AdvanceStrategy.reset() puts the Simulation back to its initial time, 0.
\* the bookkeeping of reset: the history holds the number of calls of
\* strategy.reset() and what the SimRunner broadcast: RUNNING from observe,
\* when the Clock broadcasts CLOCK_PAUSE, and RESET at the end
ResetDone ==
  /\ ops < MaxOps
  /\ ops' = ops + 1
  /\ last' = [op |-> "reset", resets |-> Len(advanceList_),
              broadcasts |->
                (IF Clock_pause_broadcasts(clock_) # <<>> THEN <<"RUNNING">> ELSE <<>>)
                  \o <<"RESET">>]
  /\ UNCHANGED sysTime

\* reset without `this.clock_.setRealTime(t)`
reset_NoRealTime ==
  /\ LET list == [i \in 1..Len(advanceList_) |-> 0]
         t    == list[1]
         Obs  == RunnerObserver(t)
         c1   == Clock_setTime(clock_, sysTime, t, Obs)
     IN  /\ advanceList_' = list
         /\ clock_' = Clock_pause(c1, sysTime, Obs)
  /\ ResetDone
  /\ UNCHANGED <<timeStep_, displayPeriod_, timer_, canvasList_, errorObservers_>>

reset ==
  /\ LET list == [i \in 1..Len(advanceList_) |-> 0]
         t    == list[1]
         Obs  == RunnerObserver(t)
         c1   == Clock_setTime(clock_, sysTime, t, Obs)
         c2   == Clock_setRealTime(c1, sysTime, t)
     IN  /\ advanceList_' = list
         /\ clock_' = Clock_pause(c2, sysTime, Obs)
  /\ ResetDone
  /\ UNCHANGED <<timeStep_, displayPeriod_, timer_, canvasList_, errorObservers_>>

setTimeStep(timeStep) ==
  /\ timeStep_' = timeStep
  /\ Done("setTimeStep")
  /\ UNCHANGED <<clock_, advanceList_, displayPeriod_, timer_, canvasList_, errorObservers_>>

addStrategy(time) ==
  /\ Len(advanceList_) < MaxStrategies
  /\ advanceList_' = Append(advanceList_, time)
  /\ Done("addStrategy")
  /\ UNCHANGED <<clock_, timeStep_, displayPeriod_, timer_, canvasList_, errorObservers_>>

addCanvas(canvas) ==
  /\ canvasList_' = IF \E i \in 1..Len(canvasList_) : canvasList_[i] = canvas
                      THEN canvasList_ ELSE Append(canvasList_, canvas)
  /\ Done("addCanvas")
  /\ UNCHANGED <<clock_, advanceList_, timeStep_, displayPeriod_, timer_, errorObservers_>>

addErrorObserver(errorObserver) ==
  /\ errorObservers_' =
       IF \E i \in 1..Len(errorObservers_) : errorObservers_[i] = errorObserver
         THEN errorObservers_ ELSE Append(errorObservers_, errorObserver)
  /\ Done("addErrorObserver")
  /\ UNCHANGED <<clock_, advanceList_, timeStep_, displayPeriod_, timer_, canvasList_>>

startFiring ==
  /\ timer_' = Timer_fireAfterNoArg(timer_)
  /\ Done("startFiring")
  /\ UNCHANGED <<clock_, advanceList_, timeStep_, displayPeriod_, canvasList_, errorObservers_>>

\* a client calls getClock().setTime(time_secs)
clockSetTime(time_secs) ==
  /\ clock_' = Clock_setTime(clock_, sysTime, time_secs, Observer)
  /\ Done("clockSetTime")
  /\ UNCHANGED <<advanceList_, timeStep_, displayPeriod_, timer_, canvasList_, errorObservers_>>

\* a client sets the Clock's TIME_RATE parameter
clockSetTimeRate(rate) ==
  /\ clock_' = Clock_setTimeRate(clock_, sysTime, rate, Observer)
  /\ Done("clockSetTimeRate")
  /\ UNCHANGED <<advanceList_, timeStep_, displayPeriod_, timer_, canvasList_, errorObservers_>>

\* system time passes
Tick(d) ==
  /\ ops < MaxOps
  /\ ops' = ops + 1
  /\ sysTime' = sysTime + d
  /\ last' = [op |-> "tick"]
  /\ UNCHANGED <<clock_, advanceList_, timeStep_, displayPeriod_, timer_, canvasList_, errorObservers_>>

NoFault == [kind |-> "none", at |-> 0]

\* what can happen in one callback: nothing goes wrong and the advance calls
\* take el (0 or 402) ticks of system time; an advance call goes wrong; the
\* paintAt-th canvas throws
CallbackInputs ==
  [fault : {NoFault}, el : {0, 402}, paintAt : {0}]
    \cup [fault : [kind : {"stuck", "throw", "short"}, at : 1..MaxFaultAt],
          el : {0}, paintAt : {0}]
    \cup [fault : {NoFault}, el : {0}, paintAt : {1}]

\* new SimRunner(advance), with advance.getTime() = 0 and advance.getTimeStep()
\* in TimeSteps
Init ==
  /\ sysTime = 0
  /\ advanceList_ = <<0>>
  /\ timeStep_ \in TimeSteps
  /\ displayPeriod_ = InitialDisplayPeriod
  /\ timer_ = Timer_new
  /\ LET t  == advanceList_[1]
         c1 == Clock_setTime(NewClock(sysTime), sysTime, t, NoObserver)
     IN  clock_ = Clock_setRealTime(c1, sysTime, t)
  /\ canvasList_ = <<>>
  /\ errorObservers_ = <<>>
  /\ ops = 0
  /\ last = [op |-> "new"]
  /\ elements_ = <<>>
  /\ similar_ = {}
  /\ mirror = {}
  /\ NoEdges
  /\ NoDrag

RunnerNext ==
  \/ \E in \in CallbackInputs : callback(in.fault, in.el, in.paintAt)
  \/ pause
  \/ resume
  \/ step
  \/ reset
  \/ \E timeStep \in TimeSteps : setTimeStep(timeStep)
  \/ \E time \in {0, 60} : addStrategy(time)
  \/ \E canvas \in {"canvas1"} : addCanvas(canvas)
  \/ \E o \in {"observer1"} : addErrorObserver(o)
  \/ startFiring
  \/ \E t \in SetTimes : clockSetTime(t)
  \/ \E rate \in TimeRates : clockSetTimeRate(rate)
  \/ \E d \in {402} : Tick(d)

Next == RunnerNext /\ UNCHANGED listVars /\ UNCHANGED edgeVars /\ UNCHANGED dragVars

Spec == Init /\ [][Next]_vars

\* every division the model makes is exact, and the types are as expected
ExactDivision ==
  /\ clock_.timeRate_ \in TimeRates
  /\ Clock_getTime(clock_, sysTime) % 2 = 0
  /\ Clock_getRealTime(clock_, sysTime) % 2 = 0
  /\ \A i \in 1..Len(advanceList_) : advanceList_[i] % 2 = 0

----------------------------------------------------------------------------
(* A Clock on its own: a client calls its methods in any order, and the     *)
(* Clock has no Observer.                                                   *)

ClockDone(op, arg, broadcasts) ==
  /\ ops < MaxOps
  /\ ops' = ops + 1
  /\ last' = [op |-> op, arg |-> arg, broadcasts |-> broadcasts]
  /\ UNCHANGED sysTime
  /\ UNCHANGED runnerVars
  /\ UNCHANGED listVars
  /\ UNCHANGED edgeVars /\ UNCHANGED dragVars

Clock_pause_call ==
  /\ clock_' = Clock_pause(clock_, sysTime, NoObserver)
  /\ ClockDone("Clock.pause", 0, Clock_pause_broadcasts(clock_))

Clock_resume_call ==
  /\ clock_' = Clock_resume(clock_, sysTime, NoObserver)
  /\ ClockDone("Clock.resume", 0,
               IF ~clock_.isRunning_ THEN <<"CLOCK_RESUME">> ELSE <<>>)

Clock_step_call(timeStep) ==
  /\ clock_' = Clock_step(clock_, sysTime, timeStep, NoObserver)
  /\ ClockDone("Clock.step", timeStep,
               Clock_pause_broadcasts(clock_) \o <<"CLOCK_STEP">>)

Clock_setTime_call(time_secs) ==
  /\ clock_' = Clock_setTime(clock_, sysTime, time_secs, NoObserver)
  /\ ClockDone("Clock.setTime", time_secs, <<"CLOCK_SET_TIME">>)

Clock_setRealTime_call(time_secs) ==
  /\ clock_' = Clock_setRealTime(clock_, sysTime, time_secs)
  /\ ClockDone("Clock.setRealTime", time_secs, <<>>)

Clock_setTimeRate_call(rate) ==
  /\ clock_' = Clock_setTimeRate(clock_, sysTime, rate, NoObserver)
  /\ ClockDone("Clock.setTimeRate", rate,
               IF clock_.timeRate_ # rate THEN <<"TIME_RATE">> ELSE <<>>)

Clock_clearStepMode_call ==
  /\ clock_' = Clock_clearStepMode(clock_)
  /\ ClockDone("Clock.clearStepMode", 0, <<>>)

\* new Clock()
ClockInit ==
  /\ sysTime = 0
  /\ clock_ = NewClock(sysTime)
  /\ advanceList_ = <<0>>
  /\ timeStep_ = 20
  /\ displayPeriod_ = InitialDisplayPeriod
  /\ timer_ = Timer_new
  /\ canvasList_ = <<>>
  /\ errorObservers_ = <<>>
  /\ ops = 0
  /\ last = [op |-> "new"]
  /\ elements_ = <<>>
  /\ similar_ = {}
  /\ mirror = {}
  /\ NoEdges
  /\ NoDrag

ClockNext ==
  \/ Clock_pause_call
  \/ Clock_resume_call
  \/ \E timeStep \in TimeSteps : Clock_step_call(timeStep)
  \/ \E t \in SetTimes : Clock_setTime_call(t)
  \/ \E t \in SetTimes : Clock_setRealTime_call(t)
  \/ \E rate \in TimeRates : Clock_setTimeRate_call(rate)
  \/ Clock_clearStepMode_call
  \/ \E d \in {402} : Tick(d) /\ UNCHANGED listVars /\ UNCHANGED edgeVars /\ UNCHANGED dragVars

SpecClock == ClockInit /\ [][ClockNext]_vars

----------------------------------------------------------------------------
(* SimList.js.  A SimObject is the record of its name and its expiration    *)
(* time (finite = FALSE: the time is infinite); similar_ is the relation    *)
(* that SimObject.similar computes at the SimList's tolerance.  The methods *)
(* work on the record s of the elements, the set that an Observer keeps     *)
(* (adding the value of each OBJECT_ADDED event to it and deleting that of  *)
(* each OBJECT_REMOVED event), and the events broadcast so far; each event  *)
(* is recorded with the set of elements before the change it reports and    *)
(* the set of elements when it is broadcast.                                *)

SimObjects ==
  { [name |-> "a", finite |-> FALSE, expireTime |-> 0],
    [name |-> "b", finite |-> TRUE,  expireTime |-> 6],
    [name |-> "c", finite |-> TRUE,  expireTime |-> 12] }

\* the times given to removeTemporary
ExpireTests == {0, 12, 20}

\* the arguments of add, addAll and removeAll: one or two SimObjects
ObjLists ==
  { <<o>> : o \in SimObjects } \cup { <<o1, o2>> : o1, o2 \in SimObjects }

\* the `null` that goog.array.find returns when it finds nothing
Null == [name |-> "null", finite |-> FALSE, expireTime |-> 0]

Elements(seq) == { seq[i] : i \in 1..Len(seq) }

\* goog.array.contains
Contains(seq, obj) == \E i \in 1..Len(seq) : seq[i] = obj

\* goog.array.remove: the array without the first occurrence of obj
RemoveFirst(seq, obj) ==
  LET i == CHOOSE k \in 1..Len(seq) :
             seq[k] = obj /\ \A j \in 1..(k - 1) : seq[j] # obj
  IN  SubSeq(seq, 1, i - 1) \o SubSeq(seq, i + 1, Len(seq))

\* the Observer of the claim
MirrorObserve(m, name, value) ==
  CASE name = "OBJECT_ADDED"   -> m \cup {value}
    [] name = "OBJECT_REMOVED" -> m \ {value}

\* this.broadcast(new GenericEvent(this, name, value)); before is the set of
\* elements before the change that the event reports
broadcast(s, name, value, before) ==
  [s EXCEPT !.mirror = MirrorObserve(@, name, value),
            !.events = Append(@, [name |-> name, value |-> value,
                                  before |-> before, at |-> Elements(s.elements)])]

\* remove that takes the SimObject out and tells no Observer
SimList_remove_Silent(s, simObj) ==
  IF Contains(s.elements, simObj)
    THEN [s EXCEPT !.elements = RemoveFirst(@, simObj)]
    ELSE s

SimList_remove(s, simObj) ==
  IF Contains(s.elements, simObj)
    THEN broadcast([s EXCEPT !.elements = RemoveFirst(@, simObj)],
                   "OBJECT_REMOVED", simObj, Elements(s.elements))
    ELSE s

\* SimList.getSimilar at the default tolerance: the first element obj with
\* obj.similar(simObj, tol), or null
SimList_getSimilar(elements, simObj) ==
  IF \E i \in 1..Len(elements) : <<elements[i], simObj>> \in similar_
    THEN LET i == CHOOSE k \in 1..Len(elements) :
                    /\ <<elements[k], simObj>> \in similar_
                    /\ \A j \in 1..(k - 1) : <<elements[j], simObj>> \notin similar_
         IN  elements[i]
    ELSE Null

\* an `if` in place of the `while`: only the first similar SimObject is removed
RemoveSimilar_Once(s, element) ==
  LET similar == SimList_getSimilar(s.elements, element)
  IN  IF similar # Null THEN SimList_remove(s, similar) ELSE s

\* `while (similar = this.getSimilar(element)) { this.remove(similar); }`
RECURSIVE RemoveSimilar(_, _)
RemoveSimilar(s, element) ==
  LET similar == SimList_getSimilar(s.elements, element)
  IN  IF similar # Null
        THEN RemoveSimilar(SimList_remove(s, similar), element)
        ELSE s

\* the body of the loop of SimList.add, for one argument
SimList_addOne(s, element) ==
  LET s1 == IF element.finite THEN RemoveSimilar(s, element) ELSE s
  IN  IF ~Contains(s1.elements, element)
        THEN broadcast([s1 EXCEPT !.elements = Append(@, element)],
                       "OBJECT_ADDED", element, Elements(s1.elements))
        ELSE s1

\* SimList.add(simObjs...): the loop over the arguments from the i-th on.
\* SimList.addAll(objList) calls add with each SimObject of objList in turn.
RECURSIVE SimList_add(_, _, _)
SimList_add(s, simObjs, i) ==
  IF i > Len(simObjs) THEN s
  ELSE SimList_add(SimList_addOne(s, simObjs[i]), simObjs, i + 1)

RECURSIVE SimList_removeAll(_, _, _)
SimList_removeAll(s, objList, i) ==
  IF i > Len(objList) THEN s
  ELSE SimList_removeAll(SimList_remove(s, objList[i]), objList, i + 1)

\* removeTemporary with the test `simobj.getExpireTime() <= time`
RECURSIVE SimList_removeTemporary_UpTo(_, _, _)
SimList_removeTemporary_UpTo(s, time, i) ==
  IF i < 1 THEN s
  ELSE LET simobj == s.elements[i]
           s1 == IF simobj.finite /\ simobj.expireTime <= time
                   THEN broadcast(
                          [s EXCEPT !.elements =
                             SubSeq(@, 1, i - 1) \o SubSeq(@, i + 1, Len(@))],
                          "OBJECT_REMOVED", simobj, Elements(s.elements))
                   ELSE s
       IN  SimList_removeTemporary_UpTo(s1, time, i - 1)

\* SimList.removeTemporary: the loop from index i (counted from 1) down
RECURSIVE SimList_removeTemporary(_, _, _)
SimList_removeTemporary(s, time, i) ==
  IF i < 1 THEN s
  ELSE LET simobj == s.elements[i]
           s1 == IF simobj.finite /\ simobj.expireTime < time
                   THEN broadcast(
                          [s EXCEPT !.elements =
                             SubSeq(@, 1, i - 1) \o SubSeq(@, i + 1, Len(@))],
                          "OBJECT_REMOVED", simobj, Elements(s.elements))
                   ELSE s
       IN  SimList_removeTemporary(s1, time, i - 1)

\* the SimList and its Observer as an operation finds them
ListState == [elements |-> elements_, mirror |-> mirror, events |-> <<>>]

ListDone(op, s) ==
  /\ elements_' = s.elements
  /\ mirror' = s.mirror
  /\ last' = [op |-> op, events |-> s.events]
  /\ UNCHANGED <<similar_, sysTime, clock_, ops>>
  /\ UNCHANGED edgeVars /\ UNCHANGED dragVars

add(simObjs) ==
  /\ ListDone("add", SimList_add(ListState, simObjs, 1))
  /\ UNCHANGED runnerVars

addAll(objList) ==
  /\ ListDone("addAll", SimList_add(ListState, objList, 1))
  /\ UNCHANGED runnerVars

remove(simObj) ==
  /\ ListDone("remove", SimList_remove(ListState, simObj))
  /\ UNCHANGED runnerVars

removeAll(objList) ==
  /\ ListDone("removeAll", SimList_removeAll(ListState, objList, 1))
  /\ UNCHANGED runnerVars

removeTemporary(time) ==
  /\ ListDone("removeTemporary",
              SimList_removeTemporary(ListState, time, Len(elements_)))
  /\ UNCHANGED runnerVars

\* `this.removeAll(this.toArray())`
clear ==
  /\ ListDone("clear", SimList_removeAll(ListState, elements_, 1))
  /\ UNCHANGED runnerVars

\* new SimList(), with an Observer whose set is empty.  SimObject.similar is any
\* relation; add asks obj.similar(simObj) only of a simObj whose expiration time
\* is finite, so the pairs with another simObj are left out.
ListInit ==
  /\ elements_ = <<>>
  /\ mirror = {}
  /\ similar_ \in SUBSET (SimObjects \X {o \in SimObjects : o.finite})
  /\ sysTime = 0
  /\ clock_ = NewClock(sysTime)
  /\ advanceList_ = <<0>>
  /\ timeStep_ = 20
  /\ displayPeriod_ = InitialDisplayPeriod
  /\ timer_ = Timer_new
  /\ canvasList_ = <<>>
  /\ errorObservers_ = <<>>
  /\ ops = 0
  /\ last = [op |-> "new", events |-> <<>>]
  /\ NoEdges
  /\ NoDrag

ListNext ==
  \/ \E simObjs \in ObjLists : add(simObjs)
  \/ \E objList \in ObjLists : addAll(objList)
  \/ \E simObj \in SimObjects : remove(simObj)
  \/ \E objList \in ObjLists : removeAll(objList)
  \/ \E time \in ExpireTests : removeTemporary(time)
  \/ clear

SpecList == ListInit /\ [][ListNext]_vars

----------------------------------------------------------------------------
(* StraightStraight (engine2D).  Vectors are pairs of integers and angles   *)
(* are counted in quarter turns, so that rotations are exact; distances     *)
(* are counted in tenths of a unit.  A body is the record of its position   *)
(* and angle.  UtilEngine.linesIntersect, StraightEdge.distanceToLine and   *)
(* StraightEdge.getNormalBody are not part of the sources read here: the    *)
(* point that intersect returns (NoPoint for null) and the four distances   *)
(* that improveAccuracy asks for are inputs of the operations, and the      *)
(* outward normal of a straight edge in body coordinates is a field of the  *)
(* edge.                                                                    *)

Vec_subtract(a, b) == <<a[1] - b[1], a[2] - b[2]>>

\* a vector turned by `angle` quarter turns counterclockwise
RECURSIVE Vec_rotate(_, _)
Vec_rotate(v, angle) ==
  IF angle = 0 THEN v ELSE Vec_rotate(<<-v[2], v[1]>>, angle - 1)

\* RigidBody.rotateBodyToWorld and RigidBody.bodyToWorld
rotateBodyToWorld(body, v_body) == Vec_rotate(v_body, body.angle)
bodyToWorld(body, p_body) ==
  LET r == Vec_rotate(p_body, body.angle)
  IN  <<r[1] + body.position[1], r[2] + body.position[2]>>

\* edge1, the bottom edge of body1, and edge2, the top edge of body2
Edge1 ==
  [ name |-> "edge1", body |-> "body1",
    v1 |-> <<-1, -1>>, v2 |-> <<1, -1>>, normalBody |-> <<0, -1>> ]
Edge2 ==
  [ name |-> "edge2", body |-> "body2",
    v1 |-> <<1, 1>>, v2 |-> <<-1, 1>>, normalBody |-> <<0, 1>> ]

\* edge.getBody(), as the bodies are now
Edge_getBody(bs, edge) == bs[edge.body]

\* the null of `return null` and of `var e = null`
NoPoint == <<>>
NoEdge == [name |-> "null"]

\* UtilityCore.POSITIVE_INFINITY as a value of `dist`; a finite one has its value
PositiveInfinity == [infinite |-> TRUE, value |-> 0]
\* d < dist
LessThan(d, dist) == dist.infinite \/ d < dist.value

\* what StraightStraight.intersect can return, apart from null
IntersectPoints == {<<0, 1>>, <<1, 1>>}

\* the distance that addCollision gives a record: -0.1
MeaninglessDistance == -1
\* at most this many records are collected
MaxCollisions == 1

\* StraightStraight.addCollision: the record it hands to
\* UtilityCollision.addCollision.  The normal velocity, which
\* RigidBodyCollision.calcNormalVelocity computes, is left out.
StraightStraight_addCollision(bs, edge1, edge2, pt, time) ==
  [ primaryEdge |-> edge1.name,
    normalEdge  |-> edge2.name,
    primaryBody |-> edge1.body,
    normalBody  |-> edge2.body,
    ballNormal  |-> FALSE,
    ballObject  |-> FALSE,
    radius1     |-> PositiveInfinity,
    radius2     |-> PositiveInfinity,
    distance    |-> MeaninglessDistance,
    impact1     |-> pt,
    r1          |-> Vec_subtract(pt, Edge_getBody(bs, edge1).position),
    r2          |-> Vec_subtract(pt, Edge_getBody(bs, edge2).position),
    normal      |-> rotateBodyToWorld(Edge_getBody(bs, edge2), edge2.normalBody),
    detectedTime |-> time ]

\* the test `d >= 0` in place of `d > 0`
Candidate_NonStrict(best, e, pt, d, k) ==
  IF d >= 0 /\ LessThan(d, best.dist)
    THEN [e |-> e, pt |-> pt, dist |-> [infinite |-> FALSE, value |-> d], k |-> k]
    ELSE best

\* `if (d > 0 && d < dist) { e = ...; pt = ...; dist = d; }` for the k-th
\* candidate: the end point pt, at distance d from the edge e
Candidate(best, e, pt, d, k) ==
  IF d > 0 /\ LessThan(d, best.dist)
    THEN [e |-> e, pt |-> pt, dist |-> [infinite |-> FALSE, value |-> d], k |-> k]
    ELSE best

\* the branch of improveAccuracy for edges that intersect at pt, with r2 taken
\* from edge1's body
StillIntersecting_OneBody(rbc, bs, edge1, edge2, pt) ==
  [rbc EXCEPT !.impact1 = pt,
              !.r1 = Vec_subtract(pt, Edge_getBody(bs, edge1).position),
              !.r2 = Vec_subtract(pt, Edge_getBody(bs, edge1).position),
              !.normal = rotateBodyToWorld(Edge_getBody(bs, edge2), edge2.normalBody)]

\* the branch of improveAccuracy for edges that intersect at pt
StillIntersecting(rbc, bs, edge1, edge2, pt) ==
  [rbc EXCEPT !.impact1 = pt,
              !.r1 = Vec_subtract(pt, Edge_getBody(bs, edge1).position),
              !.r2 = Vec_subtract(pt, Edge_getBody(bs, edge2).position),
              !.normal = rotateBodyToWorld(Edge_getBody(bs, edge2), edge2.normalBody)]

\* the end of the other branch returning although nothing was found
Fallback_NoThrow(rbc, bs, edge1, edge2, c) ==
  IF c.pt # NoPoint /\ c.e # NoEdge
    THEN [ rbc |-> [rbc EXCEPT
                      !.distance = c.dist.value,
                      !.impact1 = c.pt,
                      !.r1 = Vec_subtract(c.pt, Edge_getBody(bs, edge1).position),
                      !.r2 = Vec_subtract(c.pt, Edge_getBody(bs, edge2).position),
                      !.normal = rotateBodyToWorld(Edge_getBody(bs, c.e), c.e.normalBody)],
           err |-> "none" ]
    ELSE [rbc |-> rbc, err |-> "none"]

\* the end of the other branch writing the record before it tests what was found
Fallback_WriteFirst(rbc, bs, edge1, edge2, c) ==
  IF c.pt # NoPoint /\ c.e # NoEdge
    THEN [ rbc |-> [rbc EXCEPT
                      !.distance = c.dist.value,
                      !.impact1 = c.pt,
                      !.r1 = Vec_subtract(c.pt, Edge_getBody(bs, edge1).position),
                      !.r2 = Vec_subtract(c.pt, Edge_getBody(bs, edge2).position),
                      !.normal = rotateBodyToWorld(Edge_getBody(bs, c.e), c.e.normalBody)],
           err |-> "none" ]
    ELSE [ rbc |-> [rbc EXCEPT !.distance = c.dist.value, !.impact1 = c.pt],
           err |-> "StraightStraight.improveAccuracy failed" ]

\* `if (pt != null && e != null) { rbc.distance = dist; ... } else { throw ... }`
\* for the candidate c that was kept
Fallback(rbc, bs, edge1, edge2, c) ==
  IF c.pt # NoPoint /\ c.e # NoEdge
    THEN [ rbc |-> [rbc EXCEPT
                      !.distance = c.dist.value,
                      !.impact1 = c.pt,
                      !.r1 = Vec_subtract(c.pt, Edge_getBody(bs, edge1).position),
                      !.r2 = Vec_subtract(c.pt, Edge_getBody(bs, edge2).position),
                      !.normal = rotateBodyToWorld(Edge_getBody(bs, c.e), c.e.normalBody)],
           err |-> "none" ]
    ELSE [rbc |-> rbc, err |-> "StraightStraight.improveAccuracy failed"]

\* the four candidates of improveAccuracy in turn; d[k] is what the k-th call
\* of distanceToLine returns
NearestEndpoint(bs, edge1, edge2, d) ==
  LET body1 == Edge_getBody(bs, edge1)
      body2 == Edge_getBody(bs, edge2)
      e1v1  == bodyToWorld(body1, edge1.v1)
      e1v2  == bodyToWorld(body1, edge1.v2)
      e2v1  == bodyToWorld(body2, edge2.v1)
      e2v2  == bodyToWorld(body2, edge2.v2)
      c0    == [e |-> NoEdge, pt |-> NoPoint, dist |-> PositiveInfinity, k |-> 0]
      c1    == Candidate(c0, edge1, e2v1, d[1], 1)
      c2    == Candidate(c1, edge1, e2v2, d[2], 2)
      c3    == Candidate(c2, edge2, e1v1, d[3], 3)
  IN  Candidate(c3, edge2, e1v2, d[4], 4)

\* StraightStraight.improveAccuracy(rbc, edge1, edge2), where intersect returns
\* pt: the record afterwards, the error thrown, and the candidate kept (0: none)
StraightStraight_improveAccuracy(rbc, bs, edge1, edge2, pt, d) ==
  IF pt # NoPoint
    THEN [ rbc |-> StillIntersecting(rbc, bs, edge1, edge2, pt),
           err |-> "none", k |-> 0 ]
    ELSE LET c == NearestEndpoint(bs, edge1, edge2, d)
         IN  Fallback(rbc, bs, edge1, edge2, c) @@ [k |-> c.k]

\* testCollision without its test of DISABLE_EDGE_EDGE
StraightStraight_testCollision_Always(bs, edge1, edge2, pt, time) ==
  IF pt # NoPoint
    THEN <<StraightStraight_addCollision(bs, edge1, edge2, pt, time)>>
    ELSE <<>>

\* StraightStraight.testCollision(collisions, edge1, edge2, time), where
\* intersect returns pt: the records given to UtilityCollision.addCollision
StraightStraight_testCollision(bs, edge1, edge2, pt, time) ==
  IF DISABLE_EDGE_EDGE
    THEN <<>>
    ELSE IF pt # NoPoint
      THEN <<StraightStraight_addCollision(bs, edge1, edge2, pt, time)>>
      ELSE <<>>

EdgeDone ==
  /\ UNCHANGED <<DISABLE_EDGE_EDGE, edges, sysTime, clock_, ops>>
  /\ UNCHANGED dragVars
  /\ UNCHANGED runnerVars
  /\ UNCHANGED listVars

\* testCollision on edge1 and edge2 as the bodies are now; close: whether the
\* edges are within the distance tolerance of each other, which the code does
\* not ask
testCollision(pt, close, time) ==
  /\ Len(collisions) < MaxCollisions
  /\ LET submitted == StraightStraight_testCollision(bodies, Edge1, Edge2, pt, time)
     IN  /\ collisions' = collisions \o submitted
         /\ last' = [ op |-> "testCollision", pt |-> pt, close |-> close,
                      time |-> time, submitted |-> submitted,
                      disabled |-> DISABLE_EDGE_EDGE ]
  /\ UNCHANGED bodies
  /\ EdgeDone

\* improveAccuracy on the i-th record collected
improveAccuracy(i, pt, d) ==
  /\ i \in 1..Len(collisions)
  /\ LET r == StraightStraight_improveAccuracy(collisions[i], bodies, Edge1, Edge2, pt, d)
     IN  /\ collisions' = [collisions EXCEPT ![i] = r.rbc]
         /\ last' = [ op |-> "improveAccuracy", i |-> i, pt |-> pt, d |-> d,
                      err |-> r.err, k |-> r.k ]
  /\ UNCHANGED bodies
  /\ EdgeDone

\* the simulation moves the bodies
moveBodies(position1, pose2) ==
  /\ bodies' = [bodies EXCEPT !.body1.position = position1, !.body2 = pose2]
  /\ last' = [op |-> "moveBodies"]
  /\ UNCHANGED collisions
  /\ EdgeDone

\* the caller starts over with an empty array of collisions
newCollisions ==
  /\ collisions' = <<>>
  /\ last' = [op |-> "newCollisions"]
  /\ UNCHANGED bodies
  /\ EdgeDone

EdgeInit ==
  /\ bodies = StartBodies
  /\ collisions = <<>>
  /\ DISABLE_EDGE_EDGE \in BOOLEAN
  /\ edges = StartEdges
  /\ NoDrag
  /\ elements_ = <<>>
  /\ similar_ = {}
  /\ mirror = {}
  /\ sysTime = 0
  /\ clock_ = NewClock(sysTime)
  /\ advanceList_ = <<0>>
  /\ timeStep_ = 20
  /\ displayPeriod_ = InitialDisplayPeriod
  /\ timer_ = Timer_new
  /\ canvasList_ = <<>>
  /\ errorObservers_ = <<>>
  /\ ops = 0
  /\ last = [op |-> "new"]

EdgeNext ==
  \/ \E pt \in IntersectPoints \cup {NoPoint}, close \in BOOLEAN, time \in {0, 25} :
       testCollision(pt, close, time)
  \* what the four calls of distanceToLine can return: distances of which
  \* some can be positive, or distances of which none is
  \/ \E i \in 1..MaxCollisions, d \in [1..4 -> {0, 10, 20}] \cup [1..4 -> {-10, 0}] :
       improveAccuracy(i, NoPoint, d)
  \/ \E i \in 1..MaxCollisions, pt \in IntersectPoints :
       \* no distance is measured when the edges still intersect
       improveAccuracy(i, pt, [k \in 1..4 |-> 0])
  \/ \E position1 \in {<<0, 2>>, <<0, 3>>},
        pose2 \in {[position |-> <<0, 0>>, angle |-> 0], [position |-> <<1, 0>>, angle |-> 1]} :
       moveBodies(position1, pose2)
  \/ newCollisions

SpecEdges == EdgeInit /\ [][EdgeNext]_vars

----------------------------------------------------------------------------
(* AbstractEdge (unnamed/part_002): the centroid, the centroid radius and   *)
(* the test intersectionPossible of two edges A and B.                      *)

\* the 1.25 of `1.25 * this.maxDistanceTo(this.centroid_body_)`, as 5/4
CentroidSlackNumerator == 5
CentroidSlackDenominator == 4

\* Vector.lengthSquared and Vector.length, the latter for vectors whose
\* length is a whole number
Vec_lengthSquared(v) == v[1] * v[1] + v[2] * v[2]
Vec_length(v) == CHOOSE r \in 0..Vec_lengthSquared(v) : r * r = Vec_lengthSquared(v)

\* maxDistanceTo(p_body) of a straight edge: the greatest distance from p_body
\* to a point of the edge, which is the distance to one of its ends
maxDistanceTo(edge, p_body) ==
  LET d1 == Vec_length(Vec_subtract(p_body, edge.v1_))
      d2 == Vec_length(Vec_subtract(p_body, edge.v2_))
  IN  IF d1 > d2 THEN d1 ELSE d2

\* getCentroidRadius computing the radius on every call
AbstractEdge_getCentroidRadius_Recompute(edge) ==
  LET r == (CentroidSlackNumerator * maxDistanceTo(edge, edge.centroid_body_))
             \div CentroidSlackDenominator
  IN  IF edge.overridden
        THEN [edge |-> edge, value |-> edge.centroidRadius_.value]
        ELSE [edge |-> [edge EXCEPT !.centroidRadius_ = Number(r)], value |-> r]

\* AbstractEdge.getCentroidRadius: the edge afterwards and the value returned
AbstractEdge_getCentroidRadius(edge) ==
  IF edge.centroidRadius_.nan
    THEN LET r == (CentroidSlackNumerator * maxDistanceTo(edge, edge.centroid_body_))
                    \div CentroidSlackDenominator
         IN  [edge |-> [edge EXCEPT !.centroidRadius_ = Number(r)], value |-> r]
    ELSE [edge |-> edge, value |-> edge.centroidRadius_.value]

\* AbstractEdge.getCentroidWorld, for a body that holds no centroid of an
\* earlier position
AbstractEdge_getCentroidWorld(edge) == bodyToWorld(edge.body_, edge.centroid_body_)

AbstractEdge_setCentroidRadius(edge, value) ==
  [edge EXCEPT !.centroidRadius_ = Number(value), !.overridden = TRUE]

AbstractEdge_setVertex2(edge, vertex) == [edge EXCEPT !.v2_ = vertex]

\* this.intersectionPossible(edge, swellage): the two edges afterwards and the
\* value returned
AbstractEdge_intersectionPossible(this, edge, swellage) ==
  LET c1    == AbstractEdge_getCentroidWorld(this)
      c2    == AbstractEdge_getCentroidWorld(edge)
      dist  == Vec_lengthSquared(Vec_subtract(c1, c2))
      r2    == AbstractEdge_getCentroidRadius(edge)
      r1    == AbstractEdge_getCentroidRadius(this)
      sum   == r2.value + r1.value + swellage
      dist2 == sum * sum     \* UtilEngine.square
  IN  [this |-> r1.edge, edge |-> r2.edge, value |-> dist < dist2]

\* the edges constructed: where their body is, and their ends in body coordinates
EdgeShapes ==
  { [body |-> [position |-> <<0, 0>>, angle |-> 0], v1 |-> <<0, 0>>, v2 |-> <<8, 0>>],
    [body |-> [position |-> <<0, 0>>, angle |-> 0], v1 |-> <<8, -8>>, v2 |-> <<8, 8>>],
    [body |-> [position |-> <<32, 0>>, angle |-> 1], v1 |-> <<-8, 0>>, v2 |-> <<8, 0>>],
    [body |-> [position |-> <<0, 0>>, angle |-> 0], v1 |-> <<-24, -32>>, v2 |-> <<24, 32>>] }
EdgeNames == {"A", "B"}
Other(which) == IF which = "A" THEN "B" ELSE "A"

BroadDone ==
  /\ UNCHANGED <<bodies, collisions, DISABLE_EDGE_EDGE, sysTime, clock_, ops>>
  /\ UNCHANGED dragVars
  /\ UNCHANGED runnerVars
  /\ UNCHANGED listVars

newEdge(which, shape) ==
  /\ edges' = [edges EXCEPT ![which] = AbstractEdge_new(shape.body, shape.v1, shape.v2)]
  /\ last' = [op |-> "new AbstractEdge", which |-> which]
  /\ BroadDone

getCentroidRadius(which) ==
  /\ LET r == AbstractEdge_getCentroidRadius(edges[which])
     IN  /\ edges' = [edges EXCEPT ![which] = r.edge]
         /\ last' = [op |-> "getCentroidRadius", which |-> which, value |-> r.value]
  /\ BroadDone

setCentroidRadius(which, value) ==
  /\ edges' = [edges EXCEPT ![which] = AbstractEdge_setCentroidRadius(@, value)]
  /\ last' = [op |-> "setCentroidRadius", which |-> which]
  /\ BroadDone

setVertex2(which, vertex) ==
  /\ edges' = [edges EXCEPT ![which] = AbstractEdge_setVertex2(@, vertex)]
  /\ last' = [op |-> "setVertex2", which |-> which]
  /\ BroadDone

intersectionPossible(which, swellage) ==
  /\ LET r == AbstractEdge_intersectionPossible(edges[which], edges[Other(which)], swellage)
     IN  /\ edges' = [edges EXCEPT ![which] = r.this, ![Other(which)] = r.edge]
         /\ last' = [op |-> "intersectionPossible", which |-> which,
                     swellage |-> swellage, value |-> r.value]
  /\ BroadDone

BroadInit ==
  /\ edges = StartEdges
  /\ NoDrag
  /\ bodies = StartBodies
  /\ collisions = <<>>
  /\ DISABLE_EDGE_EDGE = FALSE
  /\ elements_ = <<>>
  /\ similar_ = {}
  /\ mirror = {}
  /\ sysTime = 0
  /\ clock_ = NewClock(sysTime)
  /\ advanceList_ = <<0>>
  /\ timeStep_ = 20
  /\ displayPeriod_ = InitialDisplayPeriod
  /\ timer_ = Timer_new
  /\ canvasList_ = <<>>
  /\ errorObservers_ = <<>>
  /\ ops = 0
  /\ last = [op |-> "new"]

BroadNext ==
  \/ \E which \in EdgeNames, shape \in EdgeShapes : newEdge(which, shape)
  \/ \E which \in EdgeNames : getCentroidRadius(which)
  \/ \E which \in EdgeNames, value \in {0} : setCentroidRadius(which, value)
  \/ \E which \in EdgeNames, vertex \in {<<16, 0>>, <<40, 0>>} : setVertex2(which, vertex)
  \/ \E which \in EdgeNames, swellage \in {0, 8} : intersectionPossible(which, swellage)

SpecBroad == BroadInit /\ [][BroadNext]_vars

----------------------------------------------------------------------------
(* RigidBodyEventHandler.js: dragging a RigidBody with the mouse.  The drag *)
(* Spring is a ForceLaw of the RigidBodySim and a SimObject of its SimList. *)

\* RigidBodySim.addForceLaw and RigidBodySim.removeForceLaw
RigidBodySim_addForceLaw(sim, forceLaw) ==
  [sim EXCEPT !.forceLaws = @ \cup {forceLaw}]
RigidBodySim_removeForceLaw(sim, forceLaw) ==
  [sim EXCEPT !.forceLaws = @ \ {forceLaw}]

\* the SimObjects that the RigidBodySim put on its SimList: its bodies
BodyObjects ==
  << [name |-> "body0", id |-> 0, finite |-> FALSE, expireTime |-> 0],
     [name |-> "body1", id |-> 0, finite |-> FALSE, expireTime |-> 0] >>

\* new Spring(RigidBodyEventHandler.en.DRAG, ...): an object that is none of
\* the objects in use
Spring_new(sim, list, h) ==
  LET inUse == { x.id : x \in sim.forceLaws \cup Elements(list.elements) \cup {h.dragSpring_} }
      id    == CHOOSE n \in 1..(Cardinality(inUse) + 1) : n \notin inUse
  IN  [name |-> "drag", id |-> id, finite |-> FALSE, expireTime |-> 0]

\* Math.atan2(y, x) in quarter turns, for a vector along an axis
Atan2(y, x) ==
  CASE y = 0 /\ x >= 0 -> 0
    [] y > 0 /\ x = 0  -> 1
    [] y = 0 /\ x < 0  -> 2
    [] y < 0 /\ x = 0  -> 3

\* resetDrag that leaves the Spring among the ForceLaws
resetDrag_KeepForceLaw(h, sim, list) ==
  LET spring == h.dragSpring_
  IN  IF spring # NoSpring
        THEN [ handler |-> [h EXCEPT !.dragSpring_ = NoSpring, !.dragObj_ = -1],
               sim     |-> sim,
               list    |-> SimList_remove(list, spring) ]
        ELSE [ handler |-> [h EXCEPT !.dragObj_ = -1], sim |-> sim, list |-> list ]

\* RigidBodyEventHandler.resetDrag: the handler, the RigidBodySim and its
\* SimList afterwards
resetDrag(h, sim, list) ==
  LET spring == h.dragSpring_
  IN  IF spring # NoSpring
        THEN [ handler |-> [h EXCEPT !.dragSpring_ = NoSpring, !.dragObj_ = -1],
               sim     |-> RigidBodySim_removeForceLaw(sim, spring),
               list    |-> SimList_remove(list, spring) ]
        ELSE [ handler |-> [h EXCEPT !.dragObj_ = -1], sim |-> sim, list |-> list ]

\* RigidBodyEventHandler.mouseDrag: the handler and the RigidBodySim afterwards
RigidBodyEventHandler_mouseDrag(h, sim, running, location, offset) ==
  IF ~running /\ h.dragObj_ > -1
    THEN LET i     == h.dragObj_ + 1
             body  == sim.bodies[i]
             angle == Atan2(location[2] - body.position[2],
                            location[1] - body.position[1])
             body1 == IF h.optionKey_
                        THEN [body EXCEPT !.angle =
                                (h.startBodyAngle_ + angle - h.startDragAngle_) % 4]
                        ELSE [body EXCEPT !.position = Vec_subtract(location, offset)]
         IN  [handler |-> h, sim |-> [sim EXCEPT !.bodies[i] = body1]]
    ELSE [handler |-> [h EXCEPT !.mousePoint_ = location], sim |-> sim]

\* the loop of startDrag over the bodies from the i-th on (counted from 0):
\* the value of dragObj_ afterwards
RECURSIVE FindBody(_, _, _)
FindBody(simObject, i, dragObj) ==
  IF i >= Len(BodyObjects) THEN dragObj
  ELSE FindBody(simObject, i + 1,
                IF simObject = BodyObjects[i + 1].name THEN i ELSE dragObj)

\* RigidBodyEventHandler.startDrag: the handler, the RigidBodySim and its
\* SimList afterwards, and the value returned
RigidBodyEventHandler_startDrag(h, sim, list, running, simObject, location, offset, dragBody, optionKey) ==
  LET r0 == resetDrag([h EXCEPT !.optionKey_ = optionKey], sim, list)
      h1 == [r0.handler EXCEPT !.dragObj_ = FindBody(simObject, 0, @)]
  IN  IF h1.dragObj_ > -1
        THEN LET body == r0.sim.bodies[h1.dragObj_ + 1]
             IN  IF ~running
                   THEN [ handler |-> IF h1.optionKey_
                                        THEN [h1 EXCEPT
                                                !.startBodyAngle_ = body.angle,
                                                !.startDragAngle_ = Atan2(offset[2], offset[1])]
                                        ELSE h1,
                          sim |-> r0.sim, list |-> r0.list, value |-> TRUE ]
                   ELSE IF dragBody # <<>>
                     THEN LET spring == Spring_new(r0.sim, r0.list, h1)
                              h2 == [h1 EXCEPT !.dragSpring_ = spring]
                              m  == RigidBodyEventHandler_mouseDrag(h2, r0.sim, running,
                                                                    location, offset)
                          IN  [ handler |-> m.handler,
                                sim  |-> RigidBodySim_addForceLaw(m.sim, m.handler.dragSpring_),
                                list |-> SimList_add(r0.list, <<m.handler.dragSpring_>>, 1),
                                value |-> TRUE ]
                     ELSE [handler |-> h1, sim |-> r0.sim, list |-> r0.list, value |-> TRUE]
        ELSE [handler |-> h1, sim |-> r0.sim, list |-> r0.list, value |-> FALSE]

\* where the mouse can be, and where a body can have been grabbed
Locations == {<<0, 0>>, <<2, 0>>}

DragDone ==
  /\ UNCHANGED <<similar_, sysTime, ops>>
  /\ UNCHANGED runnerVars
  /\ UNCHANGED edgeVars

startDrag(simObject, location, offset, dragBody, optionKey) ==
  /\ LET r == RigidBodyEventHandler_startDrag(handler, sim_, ListState,
                Clock_isRunning(clock_), simObject, location, offset, dragBody, optionKey)
     IN  /\ handler' = r.handler
         /\ sim_' = r.sim
         /\ elements_' = r.list.elements
         /\ mirror' = r.list.mirror
         /\ last' = [op |-> "startDrag", value |-> r.value]
  /\ UNCHANGED clock_
  /\ DragDone

mouseDrag(location, offset) ==
  /\ LET r == RigidBodyEventHandler_mouseDrag(handler, sim_, Clock_isRunning(clock_),
                                              location, offset)
     IN  /\ handler' = r.handler
         /\ sim_' = r.sim
  /\ last' = [op |-> "mouseDrag"]
  /\ UNCHANGED <<clock_, elements_, mirror>>
  /\ DragDone

finishDrag ==
  /\ LET r == resetDrag(handler, sim_, ListState)
     IN  /\ handler' = r.handler
         /\ sim_' = r.sim
         /\ elements_' = r.list.elements
         /\ mirror' = r.list.mirror
  /\ last' = [op |-> "finishDrag"]
  /\ UNCHANGED clock_
  /\ DragDone

\* the Clock is resumed or paused, by the SimRunner or a control
clockResumed ==
  /\ clock_' = Clock_resume(clock_, sysTime, NoObserver)
  /\ last' = [op |-> "Clock.resume"]
  /\ UNCHANGED <<handler, sim_, elements_, mirror>>
  /\ DragDone

clockPaused ==
  /\ clock_' = Clock_pause(clock_, sysTime, NoObserver)
  /\ last' = [op |-> "Clock.pause"]
  /\ UNCHANGED <<handler, sim_, elements_, mirror>>
  /\ DragDone

DragInit ==
  /\ handler = NewHandler
  /\ sim_ = NewSim
  /\ elements_ = BodyObjects
  /\ mirror = Elements(BodyObjects)
  /\ similar_ = {}
  /\ sysTime = 0
  /\ clock_ = NewClock(sysTime)
  /\ advanceList_ = <<0>>
  /\ timeStep_ = 20
  /\ displayPeriod_ = InitialDisplayPeriod
  /\ timer_ = Timer_new
  /\ canvasList_ = <<>>
  /\ errorObservers_ = <<>>
  /\ ops = 0
  /\ last = [op |-> "new"]
  /\ NoEdges

DragNext ==
  \* the mouse is over one of the two bodies or over something that is no
  \* body; dragBody is null (the empty tuple) or where the body was grabbed
  \/ \E simObject \in {"body0", "body1", "other"}, location \in Locations,
        offset \in Locations, dragBody \in {<<>>, <<0, 0>>}, optionKey \in BOOLEAN :
       startDrag(simObject, location, offset, dragBody, optionKey)
  \/ \E location \in Locations, offset \in Locations : mouseDrag(location, offset)
  \/ finishDrag
  \/ clockResumed
  \/ clockPaused

SpecDrag == DragInit /\ [][DragNext]_vars

----------------------------------------------------------------------------
(* Properties of SimRunner.callback and SimRunner.step, checked under Spec. *)

CallbackDone == last.op = "callback"
\* the callback found the Clock running or stepping and so took the advancing branch
CallbackActive == CallbackDone /\ (last.running \/ last.stepping)
\* every advance call of the callback moved the time forward by exactly timeStep_
AdvanceExact == last.fault = NoFault

\* C1: when an advance call of a callback leaves the strategy's time where it
\* was, 'SimRunner time did not advance' is thrown at once: that call is the
\* last advance call the callback makes.
C1_StuckThrowsAtOnce ==
  (CallbackDone /\ last.fault.kind = "stuck" /\ last.n >= last.fault.at)
    => (last.err = "stuck" /\ last.n = last.fault.at)

\* a callback whose second advance call made no progress
C1_Witness ==
  /\ CallbackDone
  /\ last.fault = [kind |-> "stuck", at |-> 2]
  /\ last.n = 2
  /\ last.err = "stuck"

\* C2: an exception raised inside callback (by advance, by the test that time
\* advanced, or by painting) leaves the Clock paused and every registered
\* ErrorObserver notified of that error.
C2_ErrorsSurfaced ==
  (CallbackDone /\ last.err # "none")
    => /\ ~Clock_isRunning(clock_)
       /\ last.notified =
            [k \in 1..Len(errorObservers_) |-> <<errorObservers_[k], last.err>>]

\* an advance call threw while the Clock was running and an ErrorObserver was registered
C2_Witness ==
  /\ CallbackDone
  /\ last.err = "advance"
  /\ last.running
  /\ Len(errorObservers_) >= 1
  /\ Len(last.notified) = Len(errorObservers_)

\* C3: every callback leaves the Timer scheduled, by fireAfter or finishAt.
C3_Rescheduled ==
  CallbackDone
    => /\ timer_.firing
       /\ timer_.method \in {"fireAfter", "fireAfterNoArg", "finishAt"}

\* a callback that retarded the Clock and rescheduled itself with fireAfter(0)
C3_Witness ==
  /\ CallbackDone
  /\ last.retard
  /\ timer_ = [firing |-> TRUE, method |-> "fireAfter", arg |-> 0]

\* C5 as claimed: after SimRunner.step() the Clock is paused, in step mode and
\* exactly one time step past the simulation time.
C5_StepOnePastSimTime ==
  last.op = "step"
    => /\ Clock_getTime(clock_, sysTime) = advanceList_[1] + timeStep_
       /\ ~Clock_isRunning(clock_)
       /\ Clock_isStepping(clock_)

\* C6 as claimed: a callback that starts in step mode, completes and whose
\* advance calls each move the time by timeStep_, calls advance exactly once and
\* leaves the Clock paused and out of step mode.
C6_SingleStep ==
  (CallbackDone /\ last.stepping /\ last.err = "none" /\ AdvanceExact)
    => /\ last.calls[1] = 1
       /\ ~Clock_isStepping(clock_)
       /\ ~Clock_isRunning(clock_)

\* C7 as claimed: after a callback that advanced and completed, every strategy
\* is at or past T - timeStep_/10 and, when every advance call moved the time
\* by exactly timeStep_, before T - timeStep_/10 + timeStep_.
C7_Original ==
  (CallbackActive /\ last.err = "none")
    => \A i \in 1..Len(advanceList_) :
         /\ advanceList_[i] >= last.T - timeStep_ \div SlackDivisor
         /\ AdvanceExact
              => advanceList_[i] < last.T - timeStep_ \div SlackDivisor + timeStep_

\* C7: after a callback that advanced and completed, every strategy is at or
\* past T - timeStep_/10; a strategy on which the callback called advance at
\* least once, each call moving the time by exactly timeStep_, is before
\* T - timeStep_/10 + timeStep_.
C7_ReachesTarget ==
  (CallbackActive /\ last.err = "none")
    => \A i \in 1..Len(advanceList_) :
         /\ advanceList_[i] >= last.T - timeStep_ \div SlackDivisor
         /\ (AdvanceExact /\ last.calls[i] >= 1)
              => advanceList_[i] < last.T - timeStep_ \div SlackDivisor + timeStep_

\* a callback that stopped advancing a strategy short of the clock time T,
\* within a tenth of a time step of it
C7_Witness ==
  /\ CallbackActive
  /\ last.err = "none"
  /\ AdvanceExact
  /\ last.calls[1] >= 2
  /\ advanceList_[1] < last.T

\* the callback ran with the Clock running and not stepping, and completed
CallbackRunning == CallbackDone /\ last.running /\ ~last.stepping /\ last.err = "none"

----------------------------------------------------------------------------
(* A property of the Clock, checked under SpecClock. *)

\* C4 as claimed: in every state of a Clock that pause, resume, step, setTime,
\* setRealTime, setTimeRate and clearStepMode lead to, a Clock in step mode is
\* not running.
C4_SteppingIsPaused ==
  Clock_isStepping(clock_) => ~Clock_isRunning(clock_)

----------------------------------------------------------------------------
(* A property of the SimList, checked under SpecList. *)

\* C10: after every operation of the SimList the Observer's set is the set of
\* the SimList's elements; every OBJECT_ADDED event the operation broadcast is
\* for a SimObject that was absent before and is present when it is broadcast,
\* and every OBJECT_REMOVED event for one that was present and is then absent.
C10_MirrorExact ==
  /\ mirror = Elements(elements_)
  /\ \A k \in 1..Len(last.events) :
       LET e == last.events[k]
       IN  /\ e.name = "OBJECT_ADDED"
                => (e.value \notin e.before /\ e.value \in e.at)
           /\ e.name = "OBJECT_REMOVED"
                => (e.value \in e.before /\ e.value \notin e.at)

\* an add that removed a similar SimObject and then added its argument, after
\* which the Observer holds what the SimList holds
C10_Witness ==
  /\ last.op = "add"
  /\ Len(last.events) = 2
  /\ last.events[1].name = "OBJECT_REMOVED"
  /\ last.events[2].name = "OBJECT_ADDED"
  /\ last.events[1].value # last.events[2].value
  /\ last.events[2].value \in mirror
  /\ last.events[1].value \notin mirror
  /\ mirror = Elements(elements_)

\* C11 as claimed: a SimObject with infinite expiration time leaves the SimList
\* only by remove, removeAll or clear; neither removeTemporary nor add takes it
\* out.
C11_PersistentStays ==
  [][ \A x \in SimObjects :
        (~x.finite /\ Contains(elements_, x) /\ ~Contains(elements_', x))
          => last'.op \in {"remove", "removeAll", "clear"} ]_vars

C13_SimilarNotAdded ==
  [][ \A e \in SimObjects :
        LET similar == SimList_getSimilar(elements_, e)
        IN  (e.finite /\ add(<<e>>) /\ similar # Null)
              => /\ Contains(elements_', similar)
                 /\ ~Contains(elements_, e) => ~Contains(elements_', e) ]_vars

\* ---------------------------------------------------------------------------
\* StraightStraight

\* the last operation was improveAccuracy, on the record Improved
ImprovedAccuracy == last.op = "improveAccuracy"
Improved == collisions[last.i]
Succeeded == ImprovedAccuracy /\ last.err = "none"
Failed == ImprovedAccuracy /\ last.err = "StraightStraight.improveAccuracy failed"

\* the k-th candidate of improveAccuracy: its end point, in world coordinates
\* as the bodies are now, and the edge its distance is measured against
EndpointOf(k) ==
  IF k = 1 THEN bodyToWorld(bodies.body2, Edge2.v1)
  ELSE IF k = 2 THEN bodyToWorld(bodies.body2, Edge2.v2)
  ELSE IF k = 3 THEN bodyToWorld(bodies.body1, Edge1.v1)
  ELSE bodyToWorld(bodies.body1, Edge1.v2)
EdgeOf(k) == IF k \in {1, 2} THEN Edge1 ELSE Edge2

\* C14: improveAccuracy never returns normally without a valid impact point:
\* when the edges do not intersect and none of the four distances is strictly
\* positive it throws 'StraightStraight.improveAccuracy failed', and when it
\* returns normally the impact point is the intersection point or one of the
\* four end points.
C14_ThrowsWithoutPoint ==
  ImprovedAccuracy =>
    /\ (last.pt = NoPoint /\ \A k \in 1..4 : last.d[k] <= 0) => Failed
    /\ Succeeded =>
         \/ last.pt # NoPoint /\ Improved.impact1 = last.pt
         \/ \E k \in 1..4 : Improved.impact1 = EndpointOf(k)
C14_Witness ==
  /\ Failed
  /\ last.pt = NoPoint
  /\ \A k \in 1..4 : last.d[k] <= 0
  /\ \E k \in 1..4 : last.d[k] < 0

\* C15: when improveAccuracy throws, the collision record is as it was before
\* the call (impact1, r1, r2, normal, distance) and no body has changed.
C15_ThrowLeavesRecord ==
  [][(last'.op = "improveAccuracy" /\ last'.err # "none")
       => collisions' = collisions /\ bodies' = bodies]_vars
C15_Witness ==
  /\ Failed
  /\ bodies # StartBodies
  /\ Improved.impact1 \in IntersectPoints
  /\ Improved.distance = MeaninglessDistance

\* C16: when the edges still intersect, improveAccuracy sets the impact point
\* to the intersection point and both moment arms from where the bodies are
\* now: r1 = point - position of edge1's body, r2 = point - position of
\* edge2's body.
C16_IntersectionUsed ==
  (ImprovedAccuracy /\ last.pt # NoPoint) =>
    /\ Succeeded
    /\ Improved.impact1 = last.pt
    /\ Improved.r1 = Vec_subtract(last.pt, bodies.body1.position)
    /\ Improved.r2 = Vec_subtract(last.pt, bodies.body2.position)
C16_Witness ==
  /\ Succeeded
  /\ last.pt # NoPoint
  /\ bodies.body1.position # StartBodies.body1.position
  /\ bodies.body2.position # StartBodies.body2.position
  /\ Improved.r1 # Improved.r2

\* C17: when the edges no longer intersect and some candidate distance is
\* strictly positive, improveAccuracy keeps the candidate with the smallest
\* strictly positive distance, the earlier one of equals: impact1 is its end
\* point, distance its distance, r1 and r2 are taken from the two body
\* positions and the normal from the edge the distance was measured against.
C17_NearestEndpoint ==
  (ImprovedAccuracy /\ last.pt = NoPoint /\ \E k \in 1..4 : last.d[k] > 0) =>
    /\ Succeeded
    /\ \E k \in 1..4 :
         /\ last.d[k] > 0
         /\ \A j \in 1..4 : last.d[j] > 0 => last.d[k] <= last.d[j]
         /\ \A j \in 1..4 : (j < k /\ last.d[j] > 0) => last.d[k] < last.d[j]
         /\ Improved.distance = last.d[k]
         /\ Improved.impact1 = EndpointOf(k)
         /\ Improved.r1 = Vec_subtract(EndpointOf(k), bodies.body1.position)
         /\ Improved.r2 = Vec_subtract(EndpointOf(k), bodies.body2.position)
         /\ Improved.normal =
              rotateBodyToWorld(Edge_getBody(bodies, EdgeOf(k)), EdgeOf(k).normalBody)
C17_Witness ==
  /\ Succeeded
  /\ last.pt = NoPoint
  /\ last.d[1] = 0
  /\ last.d[2] = 20
  /\ last.d[3] = 10
  /\ last.d[4] = 10
  /\ Improved.impact1 = EndpointOf(3)
  /\ bodies # StartBodies

\* C18: a record made by addCollision, and a record after a successful
\* improveAccuracy, has for normal the outward normal of edge2, the edge of
\* the normal body, turned to world coordinates.
C18_NormalOfNormalBody ==
  /\ (last.op = "testCollision" /\ last.submitted # <<>>) =>
       last.submitted[1].normal = rotateBodyToWorld(bodies.body2, Edge2.normalBody)
  /\ Succeeded =>
       Improved.normal = rotateBodyToWorld(bodies.body2, Edge2.normalBody)

\* C19: testCollision submits a record exactly when the edges intersect and
\* edge-edge detection is not disabled; it submits at most one, whose impact
\* point is the intersection point, whose primary edge is edge1 and normal
\* edge is edge2, and whose detected time is the given time.
C19_SubmitsIffIntersect ==
  last.op = "testCollision" =>
    /\ Len(last.submitted) <= 1
    /\ last.submitted # <<>> <=> (last.pt # NoPoint /\ ~DISABLE_EDGE_EDGE)
    /\ last.submitted # <<>> =>
         /\ last.submitted[1].impact1 = last.pt
         /\ last.submitted[1].primaryEdge = Edge1.name
         /\ last.submitted[1].normalEdge = Edge2.name
         /\ last.submitted[1].detectedTime = last.time
         /\ collisions[Len(collisions)] = last.submitted[1]
C19_Witness ==
  /\ last.op = "testCollision"
  /\ last.submitted # <<>>
  /\ last.time # 0
  /\ bodies # StartBodies

\* C20: for edges that do not intersect but are close, testCollision produces
\* a contact candidate record.
C20_CloseEdgesSubmitted ==
  (last.op = "testCollision" /\ last.pt = NoPoint /\ last.close /\ ~DISABLE_EDGE_EDGE)
    => last.submitted # <<>>

----------------------------------------------------------------------------
(* Properties of the Clock's methods, checked under SpecClock. *)

\* C24: setTime(t) leaves the real time, read at the same system time, as it
\* was, whether the Clock is running or paused; the clock time becomes t and
\* CLOCK_SET_TIME is broadcast.
C24_SetTimeKeepsRealTime ==
  [][last'.op = "Clock.setTime" =>
       /\ Clock_getRealTime(clock_', sysTime') = Clock_getRealTime(clock_, sysTime)
       /\ Clock_getTime(clock_', sysTime') = last'.arg
       /\ Clock_isRunning(clock_') = Clock_isRunning(clock_)
       /\ last'.broadcasts = <<"CLOCK_SET_TIME">>]_vars
C24_Witness ==
  /\ last.op = "Clock.setTime"
  /\ Clock_isRunning(clock_)
  /\ Clock_getTime(clock_, sysTime) = last.arg
  /\ Clock_getRealTime(clock_, sysTime) # last.arg

\* C25: step(timeStep) on a Clock without Observers leaves the Clock paused and
\* in step mode, with clock time and real time each timeStep more than at the
\* call, and broadcasts CLOCK_STEP once, after CLOCK_PAUSE exactly when the
\* Clock was running.
C25_StepAdvancesBoth ==
  [][last'.op = "Clock.step" =>
       /\ ~Clock_isRunning(clock_')
       /\ Clock_isStepping(clock_')
       /\ Clock_getTime(clock_', sysTime') = Clock_getTime(clock_, sysTime) + last'.arg
       /\ Clock_getRealTime(clock_', sysTime') =
            Clock_getRealTime(clock_, sysTime) + last'.arg
       /\ last'.broadcasts =
            IF Clock_isRunning(clock_) THEN <<"CLOCK_PAUSE", "CLOCK_STEP">>
                                       ELSE <<"CLOCK_STEP">>]_vars
C25_Witness ==
  /\ last.op = "Clock.step"
  /\ last.broadcasts = <<"CLOCK_PAUSE", "CLOCK_STEP">>
  /\ Clock_getTime(clock_, sysTime) # Clock_getRealTime(clock_, sysTime)
  /\ Clock_getTime(clock_, sysTime) > last.arg

\* C27: setTimeRate(rate) with a rate other than the present one keeps the
\* clock time and the real time, read at the same system time, whether the
\* Clock is running or paused, and broadcasts TIME_RATE; with the present rate
\* it changes nothing and broadcasts nothing.
C27_RateKeepsTimes ==
  [][last'.op = "Clock.setTimeRate" =>
       /\ Clock_getTime(clock_', sysTime') = Clock_getTime(clock_, sysTime)
       /\ Clock_getRealTime(clock_', sysTime') = Clock_getRealTime(clock_, sysTime)
       /\ Clock_getTimeRate(clock_') = last'.arg
       /\ IF Clock_getTimeRate(clock_) # last'.arg
            THEN last'.broadcasts = <<"TIME_RATE">>
            ELSE last'.broadcasts = <<>> /\ clock_' = clock_]_vars
C27_Witness ==
  /\ last.op = "Clock.setTimeRate"
  /\ last.broadcasts = <<"TIME_RATE">>
  /\ Clock_isRunning(clock_)
  /\ Clock_getTime(clock_, sysTime) > 0
  /\ Clock_getTime(clock_, sysTime) # Clock_getRealTime(clock_, sysTime)

----------------------------------------------------------------------------
(* A property of SimRunner.reset, checked under Spec. *)

\* C26: after reset, reset() has been called on every AdvanceStrategy, the
\* Clock is paused, clock time and real time are the simulation time of the
\* first AdvanceStrategy, and RESET has been broadcast once, whether the Clock
\* was running or paused.
C26_ResetSyncsClock ==
  last.op = "reset" =>
    /\ last.resets = Len(advanceList_)
    /\ \A i \in 1..Len(advanceList_) : advanceList_[i] = 0
    /\ ~Clock_isRunning(clock_)
    /\ Clock_getTime(clock_, sysTime) = advanceList_[1]
    /\ Clock_getRealTime(clock_, sysTime) = advanceList_[1]
    /\ Cardinality({i \in 1..Len(last.broadcasts) : last.broadcasts[i] = "RESET"}) = 1
C26_Witness ==
  /\ last.op = "reset"
  /\ last.broadcasts = <<"RUNNING", "RESET">>
  /\ last.resets = 2
  /\ sysTime > 0

----------------------------------------------------------------------------
(* A property of the advance calls of SimRunner, checked under Spec. *)

----------------------------------------------------------------------------
(* A property of SimList.removeTemporary, checked under SpecList. *)

\* whether the SimObject's expiration time is less than time
Expired(simobj, time) == simobj.finite /\ simobj.expireTime < time

\* the elements of seq that have not expired at time, in their order
RECURSIVE Unexpired(_, _)
Unexpired(seq, time) ==
  IF seq = <<>> THEN <<>>
  ELSE (IF Expired(Head(seq), time) THEN <<>> ELSE <<Head(seq)>>)
         \o Unexpired(Tail(seq), time)

\* C28: removeTemporary(time) removes exactly the elements whose expiration
\* time is less than time, with one OBJECT_REMOVED event for each and no other
\* event, and leaves the other elements, those that expire at time and those
\* that never expire among them, in their order.
C28_RemovesExpired ==
  [][\A time \in ExpireTests :
       removeTemporary(time) =>
         /\ elements_' = Unexpired(elements_, time)
         /\ \A i \in 1..Len(last'.events) : last'.events[i].name = "OBJECT_REMOVED"
         /\ \A o \in SimObjects :
              Cardinality({i \in 1..Len(last'.events) : last'.events[i].value = o})
                = IF Contains(elements_, o) /\ Expired(o, time) THEN 1 ELSE 0]_vars
C28_Witness ==
  /\ last.op = "removeTemporary"
  /\ Len(last.events) = 1
  /\ last.events[1].value.expireTime = 6
  /\ Len(elements_) = 2
  /\ \E i \in 1..2 : elements_[i].finite /\ elements_[i].expireTime = 12
  /\ \E i \in 1..2 : ~elements_[i].finite

----------------------------------------------------------------------------
(* Properties of AbstractEdge, checked under SpecBroad. *)

\* twice the signed area of the triangle o, a, b
Cross(o, a, b) == (a[1] - o[1]) * (b[2] - o[2]) - (a[2] - o[2]) * (b[1] - o[1])
\* p, on the line through a and b, lies between a and b
Within(a, b, p) ==
  /\ (a[1] <= p[1] /\ p[1] <= b[1]) \/ (b[1] <= p[1] /\ p[1] <= a[1])
  /\ (a[2] <= p[2] /\ p[2] <= b[2]) \/ (b[2] <= p[2] /\ p[2] <= a[2])
\* the segments p1 p2 and p3 p4, the edges A and B in world coordinates, have
\* a point in common
EdgesIntersect ==
  LET p1 == bodyToWorld(edges.A.body_, edges.A.v1_)
      p2 == bodyToWorld(edges.A.body_, edges.A.v2_)
      p3 == bodyToWorld(edges.B.body_, edges.B.v1_)
      p4 == bodyToWorld(edges.B.body_, edges.B.v2_)
      d1 == Cross(p3, p4, p1)
      d2 == Cross(p3, p4, p2)
      d3 == Cross(p1, p2, p3)
      d4 == Cross(p1, p2, p4)
  IN  \/ d1 * d2 < 0 /\ d3 * d4 < 0
      \/ d1 = 0 /\ Within(p3, p4, p1)
      \/ d2 = 0 /\ Within(p3, p4, p2)
      \/ d3 = 0 /\ Within(p1, p2, p3)
      \/ d4 = 0 /\ Within(p1, p2, p4)

\* C21: for two straight edges whose segments intersect in world coordinates,
\* and whose centroid radius was not set by setCentroidRadius,
\* intersectionPossible returns true for every swellage >= 0.
C21_NoFalseNegative ==
  ( /\ last.op = "intersectionPossible"
    /\ last.swellage >= 0
    /\ ~edges.A.overridden
    /\ ~edges.B.overridden
    /\ EdgesIntersect ) => last.value

----------------------------------------------------------------------------
(* A property of RigidBodyEventHandler, checked under SpecDrag. *)

\* the drag Springs among the ForceLaws and on the SimList
DragForceLaws == {f \in sim_.forceLaws : f.name = "drag"}
DragSimObjects == {o \in Elements(elements_) : o.name = "drag"}

\* C29: after any sequence of startDrag, mouseDrag and finishDrag, the
\* ForceLaws and the SimList hold at most one drag Spring, the same one, and
\* hold it exactly when dragSpring_ is not null; after finishDrag neither
\* holds a drag Spring and dragObj_ is -1.
C29_DragSpringPaired ==
  /\ Cardinality(DragForceLaws) <= 1
  /\ Cardinality({i \in 1..Len(elements_) : elements_[i].name = "drag"}) <= 1
  /\ IF handler.dragSpring_ # NoSpring
       THEN DragForceLaws = {handler.dragSpring_} /\ DragSimObjects = {handler.dragSpring_}
       ELSE DragForceLaws = {} /\ DragSimObjects = {}
  /\ last.op = "finishDrag" =>
       /\ DragForceLaws = {}
       /\ DragSimObjects = {}
       /\ handler.dragSpring_ = NoSpring
       /\ handler.dragObj_ = -1
C29_Witness ==
  /\ last.op = "startDrag"
  /\ handler.dragSpring_ # NoSpring
  /\ handler.dragObj_ = 1
  /\ handler.mousePoint_ # NewHandler.mousePoint_
  /\ sim_.bodies # NewSim.bodies

====
